---- MODULE Spec2Model ----
(***************************************************************************)
(* Gas-free TRC20 transfer wallet account (wdk-wallet-tron-gasfree).       *)
(*                                                                         *)
(* src/src/wallet-account-tron-gasfree.js holds three definitions of the   *)
(* class WalletAccountTronGasfree; the model follows each of them:         *)
(*   "legacy"   lines  90-358  extends WalletAccountTron, cached relay     *)
(*                              account, bodies checked by `code`           *)
(*   "readonly" lines 416-588  extends WalletAccountReadOnlyTronGasfree    *)
(*                              (src/unnamed/part_002), per-call fee cap    *)
(*   "simulate" lines 620-896  quoteTransfer = transfer({simulate:true}),  *)
(*                              transfer resolves the account on each call  *)
(* One account instance talks to one relay (the gas free provider) and to  *)
(* the chain client.  Every network call is a suspension point: a request  *)
(* is sent, the relay handles it, and the reply resumes the operation.     *)
(*                                                                         *)
(* src/src/signer/custom-signer.js holds SecureTronSigner, the typed-data  *)
(* hasher and signer: _encodeType is followed call by call, _encodeData,   *)
(* _hashStruct and signTypedData are functions of their arguments with     *)
(* keccak256 and secp256k1.sign kept symbolic, and the signature string is *)
(* built character by character.                                           *)
(***************************************************************************)
EXTENDS Integers, Sequences, FiniteSets, TLC

\* ------------------------------------------------------------ bounds
MaxOps == 2          \* operations invoked on the account instance
MaxFee == 2          \* largest transferFee / activateFee of the relay's schedule
MaxJobs == 1         \* relay jobs whose status can be polled
MaxClock == 1        \* seconds the clock can advance
MaxDisposals == 2    \* dispose() calls on the account
MaxCalls == 3        \* calls made on the wallet manager
MaxIndex == 1        \* largest account index asked of the wallet manager
MaxChainFee == 2     \* largest getTransactionFee chain parameter
MaxFields == 2       \* fields of a struct type of a typed-data type map
MaxEncodes == 2      \* _encodeType calls on one type map
MaxSigns == 2        \* signTypedData calls under one domain

\* ------------------------------------------------------------ values
Variants == {"legacy", "readonly", "simulate"}

OwnerAddress == "TOwner"          \* address derived from seed and path
GasFreeAddress == "TGasFree"      \* relay shadow address of OwnerAddress
ServiceProvider == "TService"     \* config.serviceProvider
Recipient == "TRecipient"
Amount == 5
TOKEN_TRANSFER_DEADLINE == 300
TOKEN_TRANSFER_SIGNATURE_VERSION == 1

ApiKey == "api-key"               \* config.gasFreeApiKey (config.apiKey)
ApiSecret == "api-secret"         \* config.gasFreeApiSecret (config.apiSecret)
PrivateKey == "private-key"       \* keyPair.privateKey
Zeroed == "zeroed"                \* the key buffer after dispose

Tokens == {"T1", "T2"}            \* T1 is listed by the relay, T2 is not

Undefined == -1                   \* JS undefined for an optional number
NaN == -2                         \* Math.max(undefined, x)
Null == 0                         \* JS null for hash / receipt results
Absent == -3                      \* a field the result object does not have

JobIds == 1 .. MaxJobs
TxnHashOf(id) == 10 + id          \* chain hash the relay attaches to job id
ReceiptOf(hash) == 100 + hash     \* receipt the chain holds for a hash

Ceilings == {Undefined, MaxFee}

FailStatuses == {400, 401}
NoCode == 0                       \* body without a `code` field
ReasonOf(status) ==
  CASE status = 401 -> "unauthorized"
    [] status = 404 -> "not found"
    [] OTHER -> "bad request"
MessageOf(status) ==
  CASE status = 401 -> "bad key"
    [] status = 404 -> "no such address"
    [] OTHER -> "nonce mismatch"

\* ------------------------------------------------------------ records
NoAccount == [gasFreeAddress |-> "", nonce |-> -1, active |-> FALSE, assets |-> <<>>]

NoMessage ==
  [token |-> "", serviceProvider |-> "", user |-> "", receiver |-> "",
   value |-> -1, maxFee |-> -1, deadline |-> -1, version |-> -1, nonce |-> -1]

\* createHmac('sha256', secret).update(message).digest('base64'), kept symbolic
HmacSha256Base64(secret, message) == [hmac |-> "sha256", key |-> secret, message |-> message]

NoHeaders ==
  [Timestamp |-> -1, Authorization |-> <<>>, ContentType |-> ""]

NoRequest ==
  [method |-> "", path |-> "", owner |-> "", job |-> 0, headers |-> NoHeaders,
   body |-> NoMessage]

NoData ==
  [account |-> NoAccount, tokens |-> <<>>, id |-> 0,
   estimatedTransferFee |-> 0, estimatedActivateFee |-> 0, txnHash |-> Null]

NoReply ==
  [ok |-> FALSE, status |-> 0, code |-> NoCode, reason |-> "", message |-> "",
   hasData |-> FALSE, data |-> NoData]

NoResult == [address |-> "", hash |-> Absent, id |-> Absent, fee |-> Absent, receipt |-> Absent]

Range(s) == {s[k] : k \in 1 .. Len(s)}

\* Array.prototype.find by tokenAddress: index of the first match, 0 for undefined
FindToken(list, token) ==
  IF \E k \in 1 .. Len(list) : list[k].tokenAddress = token
  THEN CHOOSE k \in 1 .. Len(list) :
         /\ list[k].tokenAddress = token
         /\ \A j \in 1 .. k - 1 : list[j].tokenAddress # token
  ELSE 0

\* Math.max(a, b) with a possibly undefined
MathMax(a, b) == IF a = Undefined THEN NaN ELSE IF a > b THEN a ELSE b


\* ------------------------------------------------------------ errors
\* An error message is the sequence of the pieces it is concatenated from.
ProviderError(reason, message) ==
  <<"Gas free provider error (", reason, "): ", message, ".">>
TypeError == <<"TypeError: cannot read properties of undefined">>
NoError == <<>>

\* ------------------------------------------------------------ state
VARIABLES
  variant,          \* which class definition the instance is of
  transferMaxFee,   \* this._config.transferMaxFee
  gasFreeAccount,   \* this._gasFreeAccount: the cached relay account
  ops,              \* the invocations made on the instance, in start order
  relay,            \* the relay's account of OwnerAddress and its token list
  txnHash,          \* relay: chain hash attached to each job, or Null
  confirmed,        \* chain: hashes whose receipt is available
  overlapped,       \* history: some operation started while another was running
  now,              \* Math.floor(Date.now() / 1_000), counted from construction
  ownerAccount,     \* the owner's chain account: index, path and key material
  disposal,         \* history: dispose() calls made, and whether one raised
  manager,          \* the wallet manager: _tronWeb, _accounts, whether disposed
  instances,        \* the account objects the wallet manager has constructed
  calls,            \* the calls made on the wallet manager, in start order
  encoder,          \* SecureTronSigner._encodeType: its arguments, locals and results
  typedData,        \* SecureTronSigner.signTypedData: its arguments and outcomes
  signing           \* a secp256k1 signature, its string and the posted sig field

lifecycle == <<now, ownerAccount, disposal>>

walletManager == <<manager, instances, calls>>

signer == <<encoder, typedData, signing>>

vars ==
  <<variant, transferMaxFee, gasFreeAccount, ops, relay, txnHash, confirmed, overlapped,
    lifecycle, walletManager, signer>>

TokenInfo(token, tf, af) == [tokenAddress |-> token, transferFee |-> tf, activateFee |-> af]
NoTokenInfo == TokenInfo("", 0, 0)

NewOp(kind, token, maxFee, job) ==
  [kind |-> kind, token |-> token, callMaxFee |-> maxFee, jobId |-> job,
   pc |-> "start", replied |-> FALSE, req |-> NoRequest, reply |-> NoReply,
   address |-> "", account |-> NoAccount, tokenInfo |-> NoTokenInfo, fee |-> Absent,
   sent |-> <<>>, signed |-> <<>>, chain |-> <<>>, chainReturned |-> Absent,
   timestamp |-> Absent, signedAt |-> <<>>,
   cachedAtStart |-> FALSE,
   status |-> "running", result |-> NoResult, error |-> NoError]

Running(op) == op.status = "running"

\* ------------------------------------------------------------ steps of an operation
\* `reply` keeps the last reply the operation received
Return(op, result) ==
  [op EXCEPT !.pc = "done", !.status = "ok", !.result = result,
             !.req = NoRequest, !.replied = FALSE]

Throw(op, err) ==
  [op EXCEPT !.pc = "done", !.status = "error", !.error = err,
             !.req = NoRequest, !.replied = FALSE]

\* a SendRequest that computes the signature once per operation and reuses it
SendRequestReusingSignature(op, method, path, owner, job, body) ==
  LET timestamp == now
      signed == IF op.sent = <<>> THEN now ELSE op.sent[1].headers.Timestamp
      message == <<method, path, owner, job, signed>>
      signature == HmacSha256Base64(ApiSecret, message)
      headers == [Timestamp |-> timestamp,
                  Authorization |-> <<"ApiKey ", ApiKey, ":", signature>>,
                  ContentType |-> "application/json"]
      r == [method |-> method, path |-> path, owner |-> owner, job |-> job,
            headers |-> headers, body |-> body]
  IN [op EXCEPT !.pc = path, !.req = r, !.reply = NoReply, !.replied = FALSE,
                !.sent = Append(@, r)]

\* _makeRequestToGasfreeProvider / _sendRequestToGasfreeProvider up to `await fetch`
SendRequest(op, method, path, owner, job, body) ==
  LET timestamp == now
      message == <<method, path, owner, job, timestamp>>
      signature == HmacSha256Base64(ApiSecret, message)
      headers == [Timestamp |-> timestamp,
                  Authorization |-> <<"ApiKey ", ApiKey, ":", signature>>,
                  ContentType |-> "application/json"]
      r == [method |-> method, path |-> path, owner |-> owner, job |-> job,
            headers |-> headers, body |-> body]
  IN [op EXCEPT !.pc = path, !.req = r, !.reply = NoReply, !.replied = FALSE,
                !.sent = Append(@, r)]

AddressPath == "/api/v1/address/"
ConfigPath == "/api/v1/config/token/all"
SubmitPath == "/api/v1/gasfree/submit"
JobPath == "/api/v1/gasfree/"

GetAccountRequest(op) == SendRequest(op, "GET", AddressPath, OwnerAddress, 0, NoMessage)
GetConfigRequest(op) == SendRequest(op, "GET", ConfigPath, "", 0, NoMessage)
GetJobRequest(op) == SendRequest(op, "GET", JobPath, "", op.jobId, NoMessage)

\* legacy 253-256, simulate 699-702 and 733-735, legacy 169-171
TotalFee(tokenInfo, account) ==
  tokenInfo.transferFee + (IF account.active THEN 0 ELSE tokenInfo.activateFee)

\* part_002:121   fee = transferFee + (+gasFreeAccount.active * activateFee)
ReadOnlyFee(paymasterToken, account) ==
  paymasterToken.transferFee + ((IF account.active THEN 1 ELSE 0) * paymasterToken.activateFee)

\* legacy 173, simulate 738
EffectiveMaxFee(totalFee) == MathMax(transferMaxFee, totalFee)

PermitMessage(token, user, maxFee, timestamp, nonce) ==
  [token |-> token, serviceProvider |-> ServiceProvider, user |-> user,
   receiver |-> Recipient, value |-> Amount, maxFee |-> maxFee,
   deadline |-> timestamp + TOKEN_TRANSFER_DEADLINE,
   version |-> TOKEN_TRANSFER_SIGNATURE_VERSION,
   nonce |-> nonce]

\* _signTypedData(domain, message) followed by the POST of message + sig;
\* secp256k1.sign rejects the key once dispose has zeroed it
SignAndSubmit(op, message) ==
  IF ownerAccount.privateKey = Zeroed
  THEN Throw(op, <<"invalid private key">>)
  ELSE SendRequest([op EXCEPT !.signed = Append(@, message),
                              !.signedAt = Append(@, now)],
                   "POST", SubmitPath, "", 0, message)

\* legacy 160-205 and simulate 724-786: the transfer once the account is known
MaxFeeTransfer(op, account) ==
  LET k == FindToken(account.assets, op.token) IN
  IF k = 0
  THEN Throw(op, IF variant = "legacy"
                 THEN <<"Token not supported for this account">>
                 ELSE <<"Token not supported">>)
  ELSE LET totalFee == TotalFee(account.assets[k], account) IN
       SignAndSubmit([op EXCEPT !.fee = totalFee],
                     PermitMessage(op.token, op.address, EffectiveMaxFee(totalFee),
                                   op.timestamp, account.nonce))

\* readonly 512-545: the transfer once quoteTransfer has returned feeEstimate
GuardedTransfer(op, feeEstimate) ==
  IF op.callMaxFee # Undefined /\ feeEstimate >= op.callMaxFee
  THEN Throw(op, <<"The transfer operation exceeds the transfer max fee.">>)
  ELSE \* timestamp = Math.floor(Date.now() / 1_000) at line 519
       SignAndSubmit([op EXCEPT !.timestamp = now],
                     PermitMessage(op.token, op.address, feeEstimate, now,
                                   op.account.nonce))

\* what an operation does once _getGasfreeAccount has returned `account`
AfterAccount(op, account) ==
  CASE op.kind = "getAddress" ->
         Return(op, [NoResult EXCEPT !.address = account.gasFreeAddress])
    [] op.kind = "quoteTransfer" /\ variant = "legacy" ->
         Return(op, [NoResult EXCEPT !.fee = TotalFee(op.tokenInfo, account)])
    [] op.kind = "quoteTransfer" /\ variant = "simulate" ->
         Return(op, [NoResult EXCEPT !.hash = Null,
                                     !.fee = TotalFee(op.tokenInfo, account)])
    [] op.kind = "quoteTransfer" /\ variant = "readonly" ->
         GetConfigRequest([op EXCEPT !.account = account])
    [] op.kind = "transfer" /\ variant = "readonly" ->
         \* address = await super.getAddress() is the relay's gasFreeAddress
         GetConfigRequest([op EXCEPT !.address = account.gasFreeAddress,
                                     !.account = account])
    [] op.kind = "transfer" /\ variant # "readonly" ->
         MaxFeeTransfer(op, account)
    [] op.kind = "getTransactionReceipt" ->
         GetJobRequest([op EXCEPT !.account = account])

\* _getGasfreeAccount: the cached account, or the request for it
GetGasfreeAccount(op) ==
  IF gasFreeAccount # NoAccount
  THEN AfterAccount(op, gasFreeAccount)
  ELSE GetAccountRequest(op)

\* ------------------------------------------------------------ wallet manager values
Indices == 0 .. MaxIndex

\* `0'/0/${index}`
PathOf(index) == <<"0'/0/", index>>

\* derivation paths asked of getAccountByPath
Paths == {PathOf(index) : index \in Indices} \cup {<<"0'/0'">>}

NoInstance == 0

\* new WalletManagerTronGasfree(seed, config): _tronWeb is set when config
\* names a provider; _accounts starts empty
NewManager(provider) ==
  [tronWeb |-> provider, disposed |-> FALSE, accounts |-> [p \in Paths |-> NoInstance]]

\* new WalletAccountTronGasfree(this.seed, path, this._config)
NewInstance(path) ==
  [path |-> path, privateKey |-> PrivateKey, gasFreeAccount |-> NoAccount]

NoFeeRate == -1

NewCall(kind, index, path) ==
  [kind |-> kind, index |-> index, path |-> path, pc |-> "start", status |-> "running",
   instance |-> NoInstance, chainFee |-> NoFeeRate, normal |-> NoFeeRate,
   fast |-> NoFeeRate,
   error |-> NoError, afterDispose |-> manager.disposed]

\* WalletManagerTron._FEE_RATE_NORMAL_MULTIPLIER and _FEE_RATE_FAST_MULTIPLIER
FEE_RATE_NORMAL_MULTIPLIER == 110
FEE_RATE_FAST_MULTIPLIER == 200

ChainFees == 0 .. MaxChainFee

\* ------------------------------------------------------------ initial state
\* ------------------------------------------------------------ typed-data values
\* struct types of the type maps handed to the signer
StructNames == {"Group", "Mail", "Person"}

\* a type name as its UTF-16 code units
CodeUnits(name) ==
  CASE name = "Group" -> <<71, 114, 111, 117, 112>>
    [] name = "Mail" -> <<77, 97, 105, 108>>
    [] name = "Person" -> <<80, 101, 114, 115, 111, 110>>
    [] name = "EIP712Domain" -> <<69, 73, 80, 55, 49, 50, 68, 111, 109, 97, 105, 110>>
    [] name = "PermitTransfer" -> <<80, 101, 114, 109, 105, 116, 84, 114, 97, 110, 115, 102, 101, 114>>

\* a field type: `name` or `name[]`
TypeRef(name, array) == [name |-> name, array |-> array]

Uint256 == TypeRef("uint256", FALSE)
String == TypeRef("string", FALSE)
Address == TypeRef("address", FALSE)

FieldTypes == {Uint256} \cup {TypeRef(n, a) : n \in StructNames, a \in BOOLEAN}

\* the field lists {name, type} of a struct type, up to MaxFields fields
FieldLists ==
  UNION {{[k \in 1 .. n |-> [name |-> <<"f1", "f2", "f3">>[k], type |-> t[k]]] :
            t \in [1 .. n -> FieldTypes]} : n \in 0 .. MaxFields}

PersonFields == <<[name |-> "name", type |-> String], [name |-> "wallet", type |-> Address]>>

\* type maps: Mail with any field list, Group with at most one field, Person a leaf
TypeMaps ==
  {[n \in StructNames |-> CASE n = "Mail" -> m [] n = "Group" -> g [] n = "Person" -> PersonFields] :
     m \in FieldLists, g \in {fields \in FieldLists : Len(fields) <= 1}}

NoEncoder ==
  [types |-> <<>>, primaryType |-> "", pc |-> "idle", deps |-> <<>>, stack |-> <<>>,
   visits |-> 0, results |-> <<>>]

\* JavaScript values: undefined, null, numbers, strings, objects, arrays
MissingValue == [undefined |-> TRUE]
NullValue == [null |-> TRUE]
Num(n) == [number |-> n]
Str(s) == [string |-> s]
Obj(fields) == [object |-> fields]
Arr(items) == [array |-> items]

\* data[name]
Get(data, name) ==
  IF "object" \in DOMAIN data /\ name \in DOMAIN data.object
  THEN data.object[name]
  ELSE MissingValue

\* PERMIT_712_TYPES.PermitTransfer
PermitTransferFields ==
  <<[name |-> "token", type |-> Address],
    [name |-> "serviceProvider", type |-> Address],
    [name |-> "user", type |-> Address],
    [name |-> "receiver", type |-> Address],
    [name |-> "value", type |-> Uint256],
    [name |-> "maxFee", type |-> Uint256],
    [name |-> "deadline", type |-> Uint256],
    [name |-> "version", type |-> Uint256],
    [name |-> "nonce", type |-> Uint256]>>

\* the domain type signTypedData starts from
DomainFields ==
  <<[name |-> "name", type |-> String],
    [name |-> "version", type |-> String],
    [name |-> "chainId", type |-> Uint256],
    [name |-> "verifyingContract", type |-> Address]>>

MailFields ==
  <<[name |-> "from", type |-> TypeRef("Person", FALSE)],
    [name |-> "to", type |-> TypeRef("Person", TRUE)],
    [name |-> "contents", type |-> String]>>

\* the type maps handed to signTypedData, without and with a domain type
SignedTypes ==
  [PermitTransfer |-> PermitTransferFields, Mail |-> MailFields, Person |-> PersonFields]

SignedTypesWithDomain ==
  [PermitTransfer |-> PermitTransferFields, Mail |-> MailFields, Person |-> PersonFields,
   EIP712Domain |-> DomainFields]

ChainId == 728126428

\* Permit712MessageDomain, its name given, undefined or null
Domains ==
  {Obj([name |-> n, version |-> Str("V1.0.0"), chainId |-> Num(ChainId),
        verifyingContract |-> Str("TVerifier")]) :
     n \in {Str("GasFreeController"), MissingValue, NullValue}}

\* PermitTransfer messages
PermitValues ==
  {Obj([token |-> token, serviceProvider |-> Str(ServiceProvider),
        user |-> Str(GasFreeAddress), receiver |-> Str(Recipient),
        value |-> Num(Amount), maxFee |-> Num(fee),
        deadline |-> Num(TOKEN_TRANSFER_DEADLINE),
        version |-> Num(TOKEN_TRANSFER_SIGNATURE_VERSION), nonce |-> nonce]) :
     token \in {Str("T1"), MissingValue}, fee \in {1, 2},
     nonce \in {Num(0), Num(1), MissingValue, NullValue}}

Persons ==
  [Alice |-> Obj([name |-> Str("Alice"), wallet |-> Str("TAlice")]),
   Bob |-> Obj([name |-> Str("Bob"), wallet |-> Str("TBob")]),
   Carol |-> Obj([name |-> Str("Carol"), wallet |-> Str("TCarol")]),
   NoWallet |-> Obj([name |-> Str("Alice")]),
   NullName |-> Obj([name |-> NullValue, wallet |-> Str("TBob")])]

\* Mail messages: a struct field, an array-of-struct field and a string
MailValues ==
  {Obj([from |-> from, to |-> to, contents |-> contents]) :
     from \in {Persons.Alice, Persons.NoWallet, MissingValue},
     to \in {Arr(<<>>), Arr(<<Persons.Bob>>), Arr(<<Persons.Bob, Persons.Carol>>),
             Arr(<<Persons.NullName>>)},
     contents \in {Str("hello"), NullValue}}

NoTypedData ==
  [domain |-> MissingValue, types |-> <<>>, primaryType |-> "", calls |-> <<>>]

\* a 256-bit integer as 16 limbs of 16 bits, the most significant first
Scalar(top, rest) == [k \in 1 .. 16 |-> IF k = 1 THEN top ELSE rest]

\* values of signature.r and signature.s: 0, 2^256 - 1 and lengths in between
Scalars == {Scalar(top, rest) : top \in {0, 1, 255, 65535}, rest \in {0, 65535}}

NoSignature ==
  [pc |-> "idle", r |-> <<>>, s |-> <<>>, recovery |-> 0, string |-> <<>>, sig |-> <<>>]

\* the signer is not in use
QuietSigner ==
  /\ encoder = NoEncoder
  /\ typedData = NoTypedData
  /\ signing = NoSignature

FeeSchedules ==
  {<<TokenInfo("T1", tf, MaxFee + 1 - tf)>> : tf \in 1 .. MaxFee}

Init ==
  /\ variant \in Variants
  /\ transferMaxFee \in Ceilings
  /\ gasFreeAccount = NoAccount
  /\ ops = <<>>
  /\ \E tokens \in FeeSchedules, assets \in FeeSchedules, active \in BOOLEAN :
       /\ relay = [nonce |-> 0, active |-> active, assets |-> assets,
                   tokens |-> tokens, accepted |-> 0]
  /\ txnHash = [j \in JobIds |-> Null]
  /\ confirmed = {}
  /\ overlapped = FALSE
  /\ now = 0
  /\ ownerAccount = [index |-> 0, path |-> "m/44'/195'/0'/0/0", privateKey |-> PrivateKey]
  /\ disposal = [calls |-> 0, raised |-> FALSE]
  /\ manager = NewManager(TRUE)
  /\ instances = <<>>
  /\ calls = <<>>
  /\ QuietSigner

\* ------------------------------------------------------------ invocations
Begin(op) ==
  /\ Len(ops) < MaxOps
  /\ ops' = Append(ops, [op EXCEPT !.cachedAtStart = (gasFreeAccount # NoAccount)])
  /\ overlapped' = (overlapped \/ \E k \in 1 .. Len(ops) : Running(ops[k]))
  /\ UNCHANGED <<signer, lifecycle, walletManager, variant, transferMaxFee, gasFreeAccount, relay, txnHash, confirmed>>

\* getAddress(): legacy 141-145, part_002 69-73, simulate 638-643
GetAddress ==
  Begin(GetGasfreeAccount(NewOp("getAddress", "", Undefined, 0)))

\* quoteTransfer({token}): legacy 229-235, part_002 114-117, simulate 654-672
QuoteTransfer ==
  \E token \in Tokens :
    LET op == NewOp("quoteTransfer", token, Undefined, 0) IN
    Begin(IF variant = "readonly" THEN GetGasfreeAccount(op) ELSE GetConfigRequest(op))

\* transfer({token, recipient, amount}, config): legacy 154-158, readonly 507-512,
\* simulate 664-716.  legacy and simulate declare no second parameter.
Transfer ==
  \E token \in Tokens, maxFee \in Ceilings :
    LET op == [NewOp("transfer", token, maxFee, 0) EXCEPT
                 !.address = OwnerAddress,
                 \* legacy 156 and simulate 710 read the clock before the account
                 !.timestamp = IF variant = "readonly" THEN Absent ELSE now] IN
    Begin(IF variant = "simulate" THEN GetAccountRequest(op) ELSE GetGasfreeAccount(op))

\* getTransactionReceipt(hash): legacy 269-273 and 293-297, part_002 132-135
GetTransactionReceipt ==
  \E job \in JobIds :
    LET op == NewOp("getTransactionReceipt", "", Undefined, job) IN
    /\ variant # "simulate"
    /\ Begin(IF variant = "legacy" THEN GetJobRequest(op) ELSE GetGasfreeAccount(op))

\* ------------------------------------------------------------ the relay
Awaiting(i, path) ==
  /\ i \in 1 .. Len(ops)
  /\ Running(ops[i])
  /\ ops[i].pc = path
  /\ ~ops[i].replied

Reply(i, reply) ==
  ops' = [ops EXCEPT ![i].reply = reply, ![i].replied = TRUE]

OkReply(data) ==
  [ok |-> TRUE, status |-> 200, code |-> 200, reason |-> "", message |-> "",
   hasData |-> TRUE, data |-> data]

ErrorReply(status, code) ==
  [ok |-> FALSE, status |-> status, code |-> code, reason |-> ReasonOf(status),
   message |-> MessageOf(status), hasData |-> FALSE, data |-> NoData]

RelayAccount ==
  [gasFreeAddress |-> GasFreeAddress, nonce |-> relay.nonce, active |-> relay.active,
   assets |-> relay.assets]

\* GET /api/v1/address/{address} -> {data: RelayAccount}
RelayAddress(i) ==
  /\ Awaiting(i, AddressPath)
  /\ Reply(i, OkReply([NoData EXCEPT !.account = RelayAccount]))
  /\ UNCHANGED <<signer, lifecycle, walletManager, variant, transferMaxFee, gasFreeAccount, relay, txnHash, confirmed, overlapped>>

\* GET /api/v1/config/token/all -> {data: {tokens}}
RelayConfig(i) ==
  /\ Awaiting(i, ConfigPath)
  /\ Reply(i, OkReply([NoData EXCEPT !.tokens = relay.tokens]))
  /\ UNCHANGED <<signer, lifecycle, walletManager, variant, transferMaxFee, gasFreeAccount, relay, txnHash, confirmed, overlapped>>

\* POST /api/v1/gasfree/submit: accepted when the message carries the account's
\* current nonce, which the submission consumes; rejected otherwise
RelaySubmit(i) ==
  /\ Awaiting(i, SubmitPath)
  /\ IF ops[i].req.body.nonce = relay.nonce
     THEN /\ relay' = [relay EXCEPT !.nonce = @ + 1, !.accepted = @ + 1]
          /\ Reply(i, OkReply([NoData EXCEPT
               !.id = relay.accepted + 1,
               !.estimatedTransferFee = relay.assets[1].transferFee,
               !.estimatedActivateFee =
                  IF relay.active THEN 0 ELSE relay.assets[1].activateFee]))
     ELSE /\ relay' = relay
          /\ Reply(i, ErrorReply(400, 400))
  /\ UNCHANGED <<signer, lifecycle, walletManager, variant, transferMaxFee, gasFreeAccount, txnHash, confirmed, overlapped>>

\* GET /api/v1/gasfree/{id} -> {data: {txnHash?}}, for a job the relay created
RelayJob(i) ==
  /\ Awaiting(i, JobPath)
  /\ ops[i].req.job <= relay.accepted
  /\ Reply(i, OkReply([NoData EXCEPT !.txnHash = txnHash[ops[i].req.job]]))
  /\ UNCHANGED <<signer, lifecycle, walletManager, variant, transferMaxFee, gasFreeAccount, relay, txnHash, confirmed, overlapped>>

\* any request may be answered with a non-success status and the envelope
\* {code, reason, message}
RelayError(i) ==
  /\ \E path \in {AddressPath, ConfigPath, SubmitPath, JobPath} : Awaiting(i, path)
  /\ \E status \in FailStatuses : Reply(i, ErrorReply(status, status))
  /\ UNCHANGED <<signer, lifecycle, walletManager, variant, transferMaxFee, gasFreeAccount, relay, txnHash, confirmed, overlapped>>

\* the relay attaches the chain transaction hash to a job it created
AttachTxnHash(j) ==
  /\ j <= relay.accepted
  /\ txnHash[j] = Null
  /\ txnHash' = [txnHash EXCEPT ![j] = TxnHashOf(j)]
  /\ UNCHANGED <<signer, lifecycle, walletManager, variant, transferMaxFee, gasFreeAccount, ops, relay, confirmed, overlapped>>

\* the chain includes the transaction: its receipt becomes available
ChainConfirm(j) ==
  /\ txnHash[j] # Null
  /\ txnHash[j] \notin confirmed
  /\ confirmed' = confirmed \cup {txnHash[j]}
  /\ UNCHANGED <<signer, lifecycle, walletManager, variant, transferMaxFee, gasFreeAccount, ops, relay, txnHash, overlapped>>

\* ------------------------------------------------------------ replies
Replied(i, path) ==
  /\ i \in 1 .. Len(ops)
  /\ Running(ops[i])
  /\ ops[i].pc = path
  /\ ops[i].replied

\* _sendRequestToGasfreeProvider, part_002 192-196: a response that is not ok
\* throws, built from the envelope
ProviderFailure(reply) == ProviderError(reply.reason, reply.message)

\* the error _getGasfreeAccount raises for a reply, NoError when it caches it
\* (legacy 323-330, part_002 150-154 with 192-196, simulate 847-869)
AccountError(reply) ==
  CASE variant = "legacy" ->
         IF reply.code = 200 THEN NoError
         ELSE IF ~reply.hasData THEN TypeError
         ELSE <<"Failed to get gasfree account">>
    [] variant = "readonly" ->
         IF reply.ok THEN NoError ELSE ProviderFailure(reply)
    [] variant = "simulate" ->
         IF reply.ok
         THEN IF reply.hasData THEN NoError
              ELSE <<"Invalid response format: missing data field">>
         ELSE IF reply.status = 401 THEN <<"unauthorized">>
         ELSE IF reply.status = 404 THEN <<"address not found">>
         ELSE <<"unknown error: ", reply.message>>

\* the reply to GET /api/v1/address/{owner} resumes the operation
AddressReply(i) ==
  /\ Replied(i, AddressPath)
  /\ LET op == ops[i]
         reply == op.reply
     IN IF variant = "simulate" /\ op.kind # "getAddress"
        THEN \* simulate 688-696 and 713-721: no cache read, no cache write
             /\ ops' = [ops EXCEPT ![i] =
                  IF reply.code # 200
                  THEN Throw(op, <<"Failed to fetch account status">>)
                  ELSE AfterAccount(op, reply.data.account)]
             /\ UNCHANGED gasFreeAccount
        ELSE IF AccountError(reply) # NoError
        THEN /\ ops' = [ops EXCEPT ![i] = Throw(op, AccountError(reply))]
             /\ UNCHANGED gasFreeAccount
        ELSE /\ gasFreeAccount' = reply.data.account
             /\ ops' = [ops EXCEPT ![i] = AfterAccount(op, reply.data.account)]
  /\ UNCHANGED <<signer, lifecycle, walletManager, variant, transferMaxFee, relay, txnHash, confirmed, overlapped>>

\* quoteTransfer after the token list arrived:
\* legacy 236-250, part_002 119-123, simulate 673-691
AfterConfig(op, reply) ==
  LET k == FindToken(reply.data.tokens, op.token) IN
  IF variant = "readonly"
  THEN IF ~reply.ok THEN Throw(op, ProviderFailure(reply))
       ELSE IF k = 0 THEN Throw(op, TypeError)
       ELSE LET fee == ReadOnlyFee(reply.data.tokens[k], op.account) IN
            IF op.kind = "quoteTransfer"
            THEN Return(op, [NoResult EXCEPT !.fee = fee])
            ELSE GuardedTransfer([op EXCEPT !.fee = fee], fee)
  ELSE IF reply.code # 200 THEN Throw(op, <<"Failed to fetch token configuration">>)
       ELSE IF k = 0 THEN Throw(op, <<"Token not supported">>)
       ELSE LET found == [op EXCEPT !.tokenInfo = reply.data.tokens[k]] IN
            IF variant = "legacy"
            THEN GetGasfreeAccount(found)
            ELSE GetAccountRequest(found)

ConfigReply(i) ==
  /\ Replied(i, ConfigPath)
  /\ ops' = [ops EXCEPT ![i] = AfterConfig(ops[i], ops[i].reply)]
  /\ UNCHANGED <<signer, lifecycle, walletManager, variant, transferMaxFee, gasFreeAccount, relay, txnHash, confirmed, overlapped>>

\* transfer after the submit reply: legacy 207-220, readonly 547-551 (with
\* part_002 192-196), simulate 788-802
AfterSubmit(op, reply) ==
  LET data == reply.data
      gasCost == data.estimatedActivateFee + data.estimatedTransferFee
  IN CASE variant = "legacy" ->
            IF reply.code # 200 THEN Throw(op, <<reply.message>>)
            ELSE Return(op, [NoResult EXCEPT !.hash = data.id, !.fee = gasCost])
       [] variant = "readonly" ->
            IF ~reply.ok THEN Throw(op, ProviderFailure(reply))
            ELSE Return(op, [NoResult EXCEPT !.hash = data.id, !.fee = gasCost])
       [] variant = "simulate" ->
            IF reply.code = 400 THEN Throw(op, <<reply.message>>)
            ELSE IF ~reply.hasData THEN Throw(op, TypeError)
            ELSE Return(op, [NoResult EXCEPT !.id = data.id, !.fee = gasCost])

SubmitReply(i) ==
  /\ Replied(i, SubmitPath)
  /\ ops' = [ops EXCEPT ![i] = AfterSubmit(ops[i], ops[i].reply)]
  /\ UNCHANGED <<signer, lifecycle, walletManager, variant, transferMaxFee, gasFreeAccount, relay, txnHash, confirmed, overlapped>>

\* the chain client's getTransactionReceipt(txHash) is called
ChainLookup(op, hash) ==
  [op EXCEPT !.pc = "chain", !.chain = Append(@, hash),
             !.req = NoRequest, !.replied = FALSE]

\* AfterJob without the check for a missing txnHash
AfterJobUnchecked(op, reply) ==
  IF ~reply.ok /\ variant # "legacy" THEN Throw(op, ProviderFailure(reply))
  ELSE ChainLookup(op, reply.data.txnHash)

\* getTransactionReceipt after the job reply: legacy 271-279 with 299-311,
\* part_002 135-139 with 212-216
AfterJob(op, reply) ==
  CASE variant = "legacy" ->
         IF reply.code = 400 \/ reply.code = 500 THEN Throw(op, <<reply.message>>)
         ELSE IF ~reply.hasData \/ reply.data.txnHash = Null
         THEN \* 'Transaction hash not available yet' is caught: return null
              Return(op, [NoResult EXCEPT !.receipt = Null])
         ELSE ChainLookup(op, reply.data.txnHash)
    [] OTHER ->
         IF ~reply.ok THEN Throw(op, ProviderFailure(reply))
         ELSE IF reply.data.txnHash = Null
         THEN Return(op, [NoResult EXCEPT !.receipt = Null])
         ELSE ChainLookup(op, reply.data.txnHash)

JobReply(i) ==
  /\ Replied(i, JobPath)
  /\ ops' = [ops EXCEPT ![i] = AfterJob(ops[i], ops[i].reply)]
  /\ UNCHANGED <<signer, lifecycle, walletManager, variant, transferMaxFee, gasFreeAccount, relay, txnHash, confirmed, overlapped>>

\* a result that drops the chain client's answer
ReceiptResultDropped(op, receipt) == Return(op, [NoResult EXCEPT !.receipt = Null])

\* legacy 273, part_002 137-139: the chain client's answer is the result
ReceiptResult(op, receipt) == Return(op, [NoResult EXCEPT !.receipt = receipt])

\* the chain client answers the receipt lookup: the receipt, or null while the
\* transaction is not included
ChainReply(i) ==
  /\ i \in 1 .. Len(ops)
  /\ Running(ops[i])
  /\ ops[i].pc = "chain"
  /\ LET hash == ops[i].chain[Len(ops[i].chain)]
         receipt == IF hash \in confirmed THEN ReceiptOf(hash) ELSE Null
     IN ops' = [ops EXCEPT ![i] = ReceiptResult([ops[i] EXCEPT !.chainReturned = receipt],
                                                receipt)]
  /\ UNCHANGED <<signer, lifecycle, walletManager, variant, transferMaxFee, gasFreeAccount, relay, txnHash, confirmed, overlapped>>

\* the caller has the outcome of its oldest call and lets go of it
Forget ==
  /\ ops # <<>>
  /\ ~Running(ops[1])
  /\ ops' = Tail(ops)
  /\ UNCHANGED <<signer, lifecycle, walletManager, variant, transferMaxFee, gasFreeAccount, relay, txnHash, confirmed, overlapped>>

\* ------------------------------------------------------------ clock and lifecycle
\* a second passes
Tick ==
  /\ now < MaxClock
  /\ now' = now + 1
  /\ UNCHANGED <<signer, walletManager, ownerAccount, disposal, variant, transferMaxFee, gasFreeAccount, ops,
                 relay, txnHash, confirmed, overlapped>>

\* WalletAccountTron.dispose of the owner account: the private key is zeroed
OwnerDispose(account) == [account EXCEPT !.privateKey = Zeroed]

\* a dispose() that also drops the cached relay account
DisposeDroppingCache ==
  /\ disposal.calls < MaxDisposals
  /\ ownerAccount' = OwnerDispose(ownerAccount)
  /\ disposal' = [disposal EXCEPT !.calls = @ + 1]
  /\ gasFreeAccount' = NoAccount
  /\ UNCHANGED <<signer, walletManager, now, variant, transferMaxFee, ops, relay, txnHash, confirmed, overlapped>>

\* dispose(): readonly 570-572 hands over to the owner account; the other two
\* classes inherit the owner account's method
Dispose ==
  /\ disposal.calls < MaxDisposals
  /\ ownerAccount' = OwnerDispose(ownerAccount)
  /\ disposal' = [disposal EXCEPT !.calls = @ + 1]
  /\ UNCHANGED <<signer, walletManager, now, variant, transferMaxFee, gasFreeAccount, ops, relay, txnHash,
                 confirmed, overlapped>>

NotSupported(method) == <<"Method '", method, "' not supported on tron gasfree.">>

\* a sendTransaction(tx) that hands the transaction to the relay's submit route
SendTransactionSubmitting ==
  /\ variant # "simulate"
  /\ Begin(SendRequest(NewOp("sendTransaction", "", Undefined, 0),
                       "POST", SubmitPath, "", 0, NoMessage))

\* sendTransaction(tx): legacy 129-131, readonly 495-497; the simulate class
\* declares none
SendTransaction ==
  /\ variant # "simulate"
  /\ Begin(Throw(NewOp("sendTransaction", "", Undefined, 0),
                 NotSupported("sendTransaction(tx)")))

\* quoteSendTransaction(tx): legacy 133-135, part_002 104-106; the simulate
\* class declares none
QuoteSendTransaction ==
  /\ variant # "simulate"
  /\ Begin(Throw(NewOp("quoteSendTransaction", "", Undefined, 0),
                 NotSupported("quoteSendTransaction(tx)")))

\* ------------------------------------------------------------ wallet manager
\* a getAccountByPath that constructs an account on every call
GetAccountByPathUncached(kind, index, path) ==
  /\ Len(calls) < MaxCalls
  /\ instances' = Append(instances, NewInstance(path))
  /\ manager' = [manager EXCEPT !.accounts[path] = Len(instances) + 1]
  /\ calls' = Append(calls, [NewCall(kind, index, path) EXCEPT
                               !.pc = "done", !.status = "ok",
                               !.instance = Len(instances) + 1])
  /\ UNCHANGED <<signer, lifecycle, variant, transferMaxFee, gasFreeAccount, ops, relay, txnHash,
                 confirmed, overlapped>>

\* getAccountByPath(path): 981-989 (1075-1083)
GetAccountByPath(kind, index, path) ==
  /\ Len(calls) < MaxCalls
  /\ IF manager.accounts[path] = NoInstance
     THEN /\ instances' = Append(instances, NewInstance(path))
          /\ manager' = [manager EXCEPT !.accounts[path] = Len(instances) + 1]
     ELSE UNCHANGED <<instances, manager>>
  /\ calls' = Append(calls, [NewCall(kind, index, path) EXCEPT
                               !.pc = "done", !.status = "ok",
                               !.instance = manager'.accounts[path]])
  /\ UNCHANGED <<signer, lifecycle, variant, transferMaxFee, gasFreeAccount, ops, relay, txnHash,
                 confirmed, overlapped>>

\* getAccount(index): 968-970 (1062-1064)
GetAccount ==
  \E index \in Indices : GetAccountByPath("getAccount", index, PathOf(index))

ManagerGetAccountByPath ==
  \E path \in Paths : GetAccountByPath("getAccountByPath", -1, path)

\* getFeeRates() up to the chain query: 996-1001
GetFeeRates ==
  /\ Len(calls) < MaxCalls
  /\ LET call == NewCall("getFeeRates", -1, <<>>) IN
     calls' = Append(calls,
       IF ~manager.tronWeb
       THEN [call EXCEPT !.pc = "done", !.status = "error",
                         !.error = <<"The wallet must be connected to tron web to get fee rates.">>]
       ELSE [call EXCEPT !.pc = "getChainParameters"])
  /\ UNCHANGED <<signer, lifecycle, manager, instances, variant, transferMaxFee, gasFreeAccount, ops,
                 relay, txnHash, confirmed, overlapped>>

\* a fee rate that divides before it multiplies
FeeRateDividingFirst(fee, multiplier) == (fee \div 100) * multiplier

\* fee * multiplier / 100n on BigInt
FeeRate(fee, multiplier) == (fee * multiplier) \div 100

\* getFeeRates() once the chain parameters arrived: 1002-1008
FeeRates(call, fee) ==
  [call EXCEPT !.pc = "done", !.status = "ok", !.chainFee = fee,
               !.normal = FeeRate(fee, FEE_RATE_NORMAL_MULTIPLIER),
               !.fast = FeeRate(fee, FEE_RATE_FAST_MULTIPLIER)]

\* the chain answers getChainParameters() with its getTransactionFee
ChainParametersReply(k) ==
  /\ k \in 1 .. Len(calls)
  /\ calls[k].pc = "getChainParameters"
  /\ \E fee \in ChainFees : calls' = [calls EXCEPT ![k] = FeeRates(calls[k], fee)]
  /\ UNCHANGED <<signer, lifecycle, manager, instances, variant, transferMaxFee, gasFreeAccount, ops,
                 relay, txnHash, confirmed, overlapped>>

\* the chain query fails: getFeeRates rejects with the query's error
ChainParametersFailure(k) ==
  /\ k \in 1 .. Len(calls)
  /\ calls[k].pc = "getChainParameters"
  /\ calls' = [calls EXCEPT ![k] = [@ EXCEPT !.pc = "done", !.status = "error",
                                              !.error = <<"rpc error">>]]
  /\ UNCHANGED <<signer, lifecycle, manager, instances, variant, transferMaxFee, gasFreeAccount, ops,
                 relay, txnHash, confirmed, overlapped>>

\* dispose() of the wallet manager (inherited): disposes all wallet accounts,
\* clearing their private keys; whether _accounts is emptied is not fixed
ManagerDispose ==
  /\ instances' = [id \in 1 .. Len(instances) |->
                     IF \E p \in Paths : manager.accounts[p] = id
                     THEN [instances[id] EXCEPT !.privateKey = Zeroed]
                     ELSE instances[id]]
  /\ \E emptied \in BOOLEAN :
       manager' = [manager EXCEPT
                     !.disposed = TRUE,
                     !.accounts = IF emptied THEN [p \in Paths |-> NoInstance] ELSE @]
  /\ UNCHANGED <<signer, lifecycle, calls, variant, transferMaxFee, gasFreeAccount, ops, relay,
                 txnHash, confirmed, overlapped>>

\* an account of the manager completes its relay account resolution:
\* this._gasFreeAccount = data on that object
InstanceResolve(id) ==
  /\ id \in 1 .. Len(instances)
  /\ instances[id].gasFreeAccount = NoAccount
  /\ instances' = [instances EXCEPT ![id].gasFreeAccount =
                     [NoAccount EXCEPT !.gasFreeAddress = GasFreeAddress, !.nonce = 0]]
  /\ UNCHANGED <<signer, lifecycle, manager, calls, variant, transferMaxFee, gasFreeAccount, ops,
                 relay, txnHash, confirmed, overlapped>>

\* ------------------------------------------------------------ the typed-data signer
\* field.type.replace(/\[\]$/, '')
StripArray(type) == [type EXCEPT !.array = FALSE]

\* types[type] is defined
IsStruct(types, type) == ~type.array /\ type.name \in DOMAIN types

\* a < b as JavaScript compares strings: by code units, a proper prefix first
RECURSIVE Before(_, _)
Before(a, b) ==
  IF a = <<>> THEN b # <<>>
  ELSE IF b = <<>> THEN FALSE
  ELSE IF Head(a) # Head(b) THEN Head(a) < Head(b)
  ELSE Before(Tail(a), Tail(b))

RECURSIVE Insert(_, _)
Insert(sorted, name) ==
  IF sorted = <<>> THEN <<name>>
  ELSE IF Before(CodeUnits(name), CodeUnits(Head(sorted)))
       THEN <<name>> \o sorted
       ELSE <<Head(sorted)>> \o Insert(Tail(sorted), name)

\* a list left in the order of discovery
Unsorted(names) == names

\* deps.sort()
RECURSIVE Sort(_)
Sort(names) ==
  IF names = <<>> THEN <<>>
  ELSE Insert(Sort(SubSeq(names, 1, Len(names) - 1)), names[Len(names)])

\* deps.filter(d => d !== primaryType)
Without(names, name) == SelectSeq(names, LAMBDA d : d # name)

\* `${type}(${fields.map(field => `${field.type} ${field.name}`).join(',')})`
TypeSignature(types, name) == [type |-> name, members |-> types[name]]

\* findDependencies that does not look whether the type is in deps already
FindDependenciesUnguarded(enc, type) ==
  IF ~IsStruct(enc.types, type)
  THEN [enc EXCEPT !.visits = @ + 1]
  ELSE [enc EXCEPT !.visits = @ + 1,
                   !.deps = Append(@, type.name),
                   !.stack = Append(@, [type |-> type.name, field |-> 1])]

\* findDependencies(type) up to its loop over the fields
FindDependencies(enc, type) ==
  IF ~IsStruct(enc.types, type) \/ type.name \in Range(enc.deps)
  THEN [enc EXCEPT !.visits = @ + 1]
  ELSE [enc EXCEPT !.visits = @ + 1,
                   !.deps = Append(@, type.name),
                   !.stack = Append(@, [type |-> type.name, field |-> 1])]

\* _encodeType(types, primaryType) is called: deps = [], findDependencies(primaryType)
EncodeType ==
  /\ encoder.pc \in {"ready", "done"}
  /\ Len(encoder.results) < MaxEncodes
  /\ encoder' = FindDependencies([encoder EXCEPT !.pc = "find", !.deps = <<>>,
                                                  !.stack = <<>>, !.visits = 0],
                                 TypeRef(encoder.primaryType, FALSE))
  /\ UNCHANGED <<typedData, signing, lifecycle, walletManager, variant, transferMaxFee, gasFreeAccount, ops, relay, txnHash, confirmed, overlapped>>

\* one turn of `for (const field of types[type])` in the innermost
\* findDependencies, or its return when the fields are exhausted
NextField ==
  /\ encoder.pc = "find"
  /\ encoder.stack # <<>>
  /\ LET top == Len(encoder.stack)
         frame == encoder.stack[top]
         fields == encoder.types[frame.type]
     IN IF frame.field > Len(fields)
        THEN encoder' = [encoder EXCEPT !.stack = SubSeq(@, 1, top - 1)]
        ELSE encoder' = FindDependencies([encoder EXCEPT !.stack[top].field = @ + 1],
                                         StripArray(fields[frame.field].type))
  /\ UNCHANGED <<typedData, signing, lifecycle, walletManager, variant, transferMaxFee, gasFreeAccount, ops, relay, txnHash, confirmed, overlapped>>

\* _encodeType from `deps = deps.filter(...)` on
TypeString(types, primaryType, found) ==
  LET deps == Sort(Without(found, primaryType))
      allTypes == <<primaryType>> \o deps
  IN [k \in 1 .. Len(allTypes) |-> TypeSignature(types, allTypes[k])]

\* after findDependencies(primaryType): filter, sort, concatenate the signatures
CanonicalType ==
  /\ encoder.pc = "find"
  /\ encoder.stack = <<>>
  /\ encoder' = [encoder EXCEPT
       !.pc = "done",
       !.results = Append(@, TypeString(encoder.types, encoder.primaryType, encoder.deps))]
  /\ UNCHANGED <<typedData, signing, lifecycle, walletManager, variant, transferMaxFee, gasFreeAccount, ops, relay, txnHash, confirmed, overlapped>>

\* findDependencies(type) as a function: deps before the call -> deps after it
RECURSIVE Dependencies(_, _, _)
RECURSIVE FieldDependencies(_, _, _, _)
Dependencies(types, type, deps) ==
  IF ~IsStruct(types, type) \/ type.name \in Range(deps)
  THEN deps
  ELSE FieldDependencies(types, types[type.name], 1, Append(deps, type.name))

FieldDependencies(types, fields, k, deps) ==
  IF k > Len(fields) THEN deps
  ELSE FieldDependencies(types, fields, k + 1,
                         Dependencies(types, StripArray(fields[k].type), deps))

\* _encodeType(types, primaryType)
EncodeTypeOf(types, primaryType) ==
  TypeString(types, primaryType, Dependencies(types, TypeRef(primaryType, FALSE), <<>>))

\* keccak256(bytes): one 32-byte word, kept symbolic
Keccak256(bytes) == [keccak256 |-> bytes]

\* _hashType(types, primaryType)
HashType(types, primaryType) == Keccak256(EncodeTypeOf(types, primaryType))

\* the outcome of an encoding: an error, or bytes as a sequence of 32-byte words
Failed(message) == [error |-> message, bytes |-> <<>>]
Encoded(bytes) == [error |-> NoError, bytes |-> bytes]

\* what Buffer.from, toHex and abiCoder.encode throw for a value that is not of
\* the kind they take
InvalidArgument == <<"TypeError: invalid argument">>

\* value === undefined, the test for null left out
IsUndefined(value) == value = MissingValue

\* value === undefined || value === null
IsMissing(value) == value = MissingValue \/ value = NullValue

\* this.tronWeb.address.toHex(value) of a base58 address: '41' and 20 bytes
ToHex(value) == <<"41", value.string>>

RECURSIVE EncodeData(_, _, _)
RECURSIVE EncodeFields(_, _, _, _, _)
RECURSIVE EncodeItems(_, _, _, _, _)
RECURSIVE HashStruct(_, _, _)

\* value.map((item) => this._encodeData(types, type, item)), concatenated
EncodeItems(types, type, items, k, bytes) ==
  IF k > Len(items) THEN Encoded(bytes)
  ELSE LET item == EncodeData(types, type, items[k]) IN
       IF item.error # NoError THEN item
       ELSE EncodeItems(types, type, items, k + 1, bytes \o item.bytes)

\* the loop of _encodeData from field k on, and abiCoder.encode of the slots
EncodeFields(types, fields, data, k, slots) ==
  IF k > Len(fields) THEN Encoded(slots)
  ELSE LET field == fields[k]
           value == Get(data, field.name)
       IN IF IsMissing(value)
          THEN Failed(<<"Missing value for field ", field.name>>)
          ELSE IF IsStruct(types, field.type)
          THEN LET hash == HashStruct(types, field.type.name, value) IN
               IF hash.error # NoError THEN hash
               ELSE EncodeFields(types, fields, data, k + 1, slots \o hash.bytes)
          ELSE IF field.type.array
          THEN IF "array" \notin DOMAIN value
               THEN Failed(<<"value.map is not a function">>)
               ELSE LET items == EncodeItems(types, field.type.name, value.array, 1, <<>>) IN
                    IF items.error # NoError THEN items
                    ELSE EncodeFields(types, fields, data, k + 1,
                                      Append(slots, Keccak256(items.bytes)))
          ELSE IF field.type = String
          THEN IF "string" \notin DOMAIN value
               THEN Failed(InvalidArgument)
               ELSE EncodeFields(types, fields, data, k + 1,
                                 Append(slots, Keccak256(<<[utf8 |-> value.string]>>)))
          ELSE IF field.type = Address
          THEN IF "string" \notin DOMAIN value
               THEN Failed(InvalidArgument)
               ELSE LET hexAddress == ToHex(value) IN
                    IF Head(hexAddress) # "41"
                    THEN Failed(<<"Invalid TRON address format for ", value.string>>)
                    ELSE EncodeFields(types, fields, data, k + 1,
                                      Append(slots, [address |-> Tail(hexAddress)]))
          ELSE IF "number" \notin DOMAIN value
          THEN Failed(InvalidArgument)
          ELSE EncodeFields(types, fields, data, k + 1,
                            Append(slots, [uint256 |-> value.number]))

\* _encodeData(types, primaryType, data)
EncodeData(types, primaryType, data) ==
  IF primaryType \notin DOMAIN types
  THEN Failed(<<"typeFields is not iterable">>)
  ELSE EncodeFields(types, types[primaryType], data, 1, <<>>)

\* _hashStruct(types, primaryType, data)
HashStruct(types, primaryType, data) ==
  LET typeHash == HashType(types, primaryType)
      encodedData == EncodeData(types, primaryType, data)
  IN IF encodedData.error # NoError THEN encodedData
     ELSE Encoded(<<Keccak256(<<typeHash>> \o encodedData.bytes)>>)

\* allTypes of signTypedData: the domain type made from the domain's defined fields
AllTypes(domain, types) ==
  IF "EIP712Domain" \in DOMAIN types THEN types
  ELSE [n \in DOMAIN types \cup {"EIP712Domain"} |->
          IF n = "EIP712Domain"
          THEN SelectSeq(DomainFields, LAMBDA field : Get(domain, field.name) # MissingValue)
          ELSE types[n]]

\* a digest that leaves the struct hash out
DigestOfDomain(domainSeparator, structHash) ==
  Keccak256(<<[prefix |-> "\\x19\\x01"]>> \o domainSeparator)

\* keccak256(Buffer.concat([Buffer.from('\x19\x01'), domainSeparator, structHash]))
Digest(domainSeparator, structHash) ==
  Keccak256(<<[prefix |-> "\\x19\\x01"]>> \o domainSeparator \o structHash)

\* secp256k1.sign(digest, privateKey) as r, s, v of the returned string
Secp256k1Sign(digest, privateKey) == [signed |-> digest, key |-> privateKey]

NoWord == [none |-> TRUE]

\* signTypedData(domain, types, primaryType, value): what it throws or returns,
\* with its locals
SignTypedData(domain, types, primaryType, value) ==
  LET allTypes == AllTypes(domain, types)
      domainSeparator == HashStruct(allTypes, "EIP712Domain", domain)
      structHash == HashStruct(allTypes, primaryType, value)
      digest == Digest(domainSeparator.bytes, structHash.bytes)
      failure == [value |-> value, error |-> NoError, structHash |-> NoWord,
                  digest |-> NoWord, signature |-> NoWord]
  IN IF domainSeparator.error # NoError
     THEN [failure EXCEPT !.error = domainSeparator.error]
     ELSE IF structHash.error # NoError
     THEN [failure EXCEPT !.error = structHash.error]
     ELSE [value |-> value, error |-> NoError, structHash |-> structHash.bytes[1],
           digest |-> digest, signature |-> Secp256k1Sign(digest, PrivateKey)]

\* signTypedData is called with a message of the primary type
Sign ==
  /\ typedData.primaryType # ""
  /\ Len(typedData.calls) < MaxSigns
  /\ \E value \in IF typedData.primaryType = "Mail" THEN MailValues ELSE PermitValues :
       typedData' = [typedData EXCEPT !.calls =
         Append(@, SignTypedData(typedData.domain, typedData.types,
                                 typedData.primaryType, value))]
  /\ UNCHANGED <<encoder, signing, lifecycle, walletManager, variant, transferMaxFee, gasFreeAccount, ops, relay, txnHash, confirmed, overlapped>>

\* the characters of the hexadecimal digits
HexChars == <<"0", "1", "2", "3", "4", "5", "6", "7", "8", "9", "a", "b", "c", "d", "e", "f">>

\* n.toString(16) of a number
RECURSIVE NumberToString16(_)
NumberToString16(n) ==
  IF n < 16 THEN <<HexChars[n + 1]>>
  ELSE NumberToString16(n \div 16) \o <<HexChars[(n % 16) + 1]>>

\* the four hexadecimal characters of a limb
LimbToString16(limb) ==
  <<HexChars[(limb \div 4096) + 1], HexChars[((limb \div 256) % 16) + 1],
    HexChars[((limb \div 16) % 16) + 1], HexChars[(limb % 16) + 1]>>

RECURSIVE StripZeros(_)
StripZeros(chars) ==
  IF Len(chars) > 1 /\ Head(chars) = "0" THEN StripZeros(Tail(chars)) ELSE chars

RECURSIVE AllLimbs(_)
AllLimbs(limbs) ==
  IF limbs = <<>> THEN <<>> ELSE LimbToString16(Head(limbs)) \o AllLimbs(Tail(limbs))

\* n.toString(16) of a BigInt: no leading zeros, "0" for zero
ToString16(limbs) == StripZeros(AllLimbs(limbs))

\* a string left as it is
NotPadded(chars, length, fill) == chars

\* chars.padStart(length, fill)
PadStart(chars, length, fill) ==
  IF Len(chars) >= length THEN chars
  ELSE [k \in 1 .. length - Len(chars) |-> fill] \o chars

\* `0x${r}${s}${v}` (custom-signer.js 143-149, account 581-585)
SignatureString(r, s, recovery) ==
  <<"0", "x">> \o PadStart(ToString16(r), 64, "0")
               \o PadStart(ToString16(s), 64, "0")
               \o PadStart(NumberToString16(recovery + 27), 2, "0")

\* signature.slice(2)
Slice2(chars) == SubSeq(chars, 3, Len(chars))

\* the signature value becomes the signature string
FormatSignature ==
  /\ signing.pc = "signed"
  /\ signing' = [signing EXCEPT
       !.pc = "formatted",
       !.string = SignatureString(signing.r, signing.s, signing.recovery)]
  /\ UNCHANGED <<encoder, typedData, lifecycle, walletManager, variant, transferMaxFee, gasFreeAccount, ops, relay, txnHash, confirmed, overlapped>>

\* the body posted to /api/v1/gasfree/submit gets sig: signature.slice(2)
PostSignature ==
  /\ signing.pc = "formatted"
  /\ signing' = [signing EXCEPT !.pc = "posted", !.sig = Slice2(signing.string)]
  /\ UNCHANGED <<encoder, typedData, lifecycle, walletManager, variant, transferMaxFee, gasFreeAccount, ops, relay, txnHash, confirmed, overlapped>>

\* ------------------------------------------------------------ specification
Next ==
  \/ GetAddress
  \/ QuoteTransfer
  \/ Transfer
  \/ GetTransactionReceipt
  \/ \E i \in 1 .. MaxOps : RelayAddress(i)
  \/ \E i \in 1 .. MaxOps : RelayConfig(i)
  \/ \E i \in 1 .. MaxOps : RelaySubmit(i)
  \/ \E i \in 1 .. MaxOps : RelayJob(i)
  \/ \E i \in 1 .. MaxOps : RelayError(i)
  \/ \E i \in 1 .. MaxOps : AddressReply(i)
  \/ \E i \in 1 .. MaxOps : ConfigReply(i)
  \/ \E i \in 1 .. MaxOps : SubmitReply(i)
  \/ \E i \in 1 .. MaxOps : JobReply(i)
  \/ \E i \in 1 .. MaxOps : ChainReply(i)
  \/ \E j \in JobIds : AttachTxnHash(j)
  \/ \E j \in JobIds : ChainConfirm(j)

Spec == Init /\ [][Next]_vars

\* one fee schedule and no configured ceiling: the account with its clock
InitOne ==
  /\ Init
  /\ transferMaxFee = Undefined
  /\ relay.tokens = relay.assets
  /\ relay.tokens[1].transferFee = 1

NextClock ==
  \/ Next
  \/ Tick

SpecClock == InitOne /\ [][NextClock]_vars

\* the account with dispose and the unsupported operations
NextLifecycle ==
  \/ Next
  \/ Dispose
  \/ SendTransaction
  \/ QuoteSendTransaction

SpecLifecycle == InitOne /\ [][NextLifecycle]_vars

\* a transfer and the polls for its receipt, by a caller that keeps calling
\* getTransactionReceipt while the relay and the chain make progress
InitPolling ==
  /\ InitOne
  /\ variant # "simulate"
  /\ relay.active

NextPolling ==
  \/ Transfer
  \/ GetTransactionReceipt
  \/ Forget
  \/ \E i \in 1 .. MaxOps : RelayAddress(i)
  \/ \E i \in 1 .. MaxOps : RelayConfig(i)
  \/ \E i \in 1 .. MaxOps : RelaySubmit(i)
  \/ \E i \in 1 .. MaxOps : RelayJob(i)
  \/ \E i \in 1 .. MaxOps : RelayError(i)
  \/ \E i \in 1 .. MaxOps : AddressReply(i)
  \/ \E i \in 1 .. MaxOps : ConfigReply(i)
  \/ \E i \in 1 .. MaxOps : SubmitReply(i)
  \/ \E i \in 1 .. MaxOps : JobReply(i)
  \/ \E i \in 1 .. MaxOps : ChainReply(i)
  \/ \E j \in JobIds : AttachTxnHash(j)
  \/ \E j \in JobIds : ChainConfirm(j)

\* every awaited answer arrives and resumes its operation; the relay answers
\* job polls again and again; the caller keeps polling
FairPolling ==
  /\ SF_vars(GetTransactionReceipt)
  /\ WF_vars(Forget)
  /\ SF_vars(\E i \in 1 .. MaxOps : RelayJob(i))
  /\ WF_vars(\E i \in 1 .. MaxOps : RelayAddress(i) \/ RelayConfig(i) \/ RelaySubmit(i) \/ RelayError(i))
  /\ WF_vars(\E i \in 1 .. MaxOps : AddressReply(i) \/ ConfigReply(i) \/ SubmitReply(i))
  /\ WF_vars(\E i \in 1 .. MaxOps : JobReply(i))
  /\ WF_vars(\E i \in 1 .. MaxOps : ChainReply(i))
  /\ WF_vars(\E j \in JobIds : AttachTxnHash(j))
  /\ WF_vars(\E j \in JobIds : ChainConfirm(j))

SpecPolling == InitPolling /\ [][NextPolling]_vars /\ FairPolling

\* no account and no wallet manager in use
QuietWallet ==
  /\ variant = "readonly"
  /\ transferMaxFee = Undefined
  /\ gasFreeAccount = NoAccount
  /\ ops = <<>>
  /\ relay = [nonce |-> 0, active |-> FALSE, assets |-> <<>>, tokens |-> <<>>,
              accepted |-> 0]
  /\ txnHash = [j \in JobIds |-> Null]
  /\ confirmed = {}
  /\ overlapped = FALSE
  /\ now = 0
  /\ ownerAccount = [index |-> 0, path |-> "m/44'/195'/0'/0/0", privateKey |-> PrivateKey]
  /\ disposal = [calls |-> 0, raised |-> FALSE]
  /\ manager = NewManager(TRUE)
  /\ instances = <<>>
  /\ calls = <<>>

\* _encodeType on every type map and primary type
InitEncodeType ==
  /\ QuietWallet
  /\ typedData = NoTypedData
  /\ signing = NoSignature
  /\ \E types \in TypeMaps, primaryType \in StructNames :
       encoder = [NoEncoder EXCEPT !.types = types, !.primaryType = primaryType,
                                   !.pc = "ready"]

NextEncodeType ==
  \/ EncodeType
  \/ NextField
  \/ CanonicalType

SpecEncodeType == InitEncodeType /\ [][NextEncodeType]_vars

\* signTypedData on every domain, type map and primary type of the bounded sets
InitTypedData ==
  /\ QuietWallet
  /\ encoder = NoEncoder
  /\ signing = NoSignature
  /\ \E domain \in Domains, types \in {SignedTypes, SignedTypesWithDomain},
        primaryType \in {"PermitTransfer", "Mail"} :
       typedData = [NoTypedData EXCEPT !.domain = domain, !.types = types,
                                       !.primaryType = primaryType]

SpecTypedData == InitTypedData /\ [][Sign]_vars

\* every signature value secp256k1.sign can return, formatted and posted
InitSignature ==
  /\ QuietWallet
  /\ encoder = NoEncoder
  /\ typedData = NoTypedData
  /\ \E r \in Scalars, s \in Scalars, recovery \in {0, 1} :
       signing = [NoSignature EXCEPT !.pc = "signed", !.r = r, !.s = s,
                                     !.recovery = recovery]

NextSignature ==
  \/ FormatSignature
  \/ PostSignature

SpecSignature == InitSignature /\ [][NextSignature]_vars

\* the wallet manager and the accounts it hands out
InitManager ==
  /\ variant = "readonly"
  /\ transferMaxFee = Undefined
  /\ gasFreeAccount = NoAccount
  /\ ops = <<>>
  /\ relay = [nonce |-> 0, active |-> FALSE, assets |-> <<>>, tokens |-> <<>>,
              accepted |-> 0]
  /\ txnHash = [j \in JobIds |-> Null]
  /\ confirmed = {}
  /\ overlapped = FALSE
  /\ now = 0
  /\ ownerAccount = [index |-> 0, path |-> "m/44'/195'/0'/0/0", privateKey |-> PrivateKey]
  /\ disposal = [calls |-> 0, raised |-> FALSE]
  /\ \E provider \in BOOLEAN : manager = NewManager(provider)
  /\ instances = <<>>
  /\ calls = <<>>
  /\ QuietSigner

NextManager ==
  \/ GetAccount
  \/ ManagerGetAccountByPath
  \/ GetFeeRates
  \/ \E k \in 1 .. MaxCalls : ChainParametersReply(k)
  \/ \E k \in 1 .. MaxCalls : ChainParametersFailure(k)
  \/ ManagerDispose
  \/ \E id \in 1 .. MaxCalls : InstanceResolve(id)

SpecManager == InitManager /\ [][NextManager]_vars

\* the wallet manager asked for accounts only
NextAccounts ==
  \/ GetAccount
  \/ ManagerGetAccountByPath
  \/ \E id \in 1 .. MaxCalls : InstanceResolve(id)

SpecAccounts == InitManager /\ [][NextAccounts]_vars

\* the wallet manager asked for fee rates only, before and after its disposal
NextFeeRates ==
  \/ GetFeeRates
  \/ \E k \in 1 .. MaxCalls : ChainParametersReply(k)
  \/ \E k \in 1 .. MaxCalls : ChainParametersFailure(k)
  \/ ManagerDispose

SpecFeeRates == InitManager /\ [][NextFeeRates]_vars

\* ------------------------------------------------------------ properties
OpIds == 1 .. Len(ops)

\* the requests operation `op` sent to `path`
Count(op, path) == Cardinality({k \in 1 .. Len(op.sent) : op.sent[k].path = path})

\* the messages `op` posted to /api/v1/gasfree/submit
Submitted(op) == {op.sent[k].body : k \in {n \in 1 .. Len(op.sent) : op.sent[n].path = SubmitPath}}

\* the transferMaxFee a transfer reads: config.transferMaxFee of the call
\* (readonly 515), this._config.transferMaxFee (legacy 173, simulate 738)
CallerCeiling(op) == IF variant = "readonly" THEN op.callMaxFee ELSE transferMaxFee

\* the last reply `op` received has been consumed and was a failure
FailedReply(op) ==
  /\ op.pc = "done"
  /\ op.reply # NoReply
  /\ ~op.reply.ok

LastPath(op) == IF op.sent = <<>> THEN "" ELSE op.sent[Len(op.sent)].path

\* C1: a transfer whose computed fee quote reaches or exceeds the supplied
\* transferMaxFee ceiling fails, having signed no message and sent no
\* POST /api/v1/gasfree/submit.
C1_CeilingStopsTransfer ==
  \A i \in OpIds :
    LET op == ops[i] IN
    (/\ op.kind = "transfer"
     /\ CallerCeiling(op) # Undefined
     /\ op.fee # Absent
     /\ op.fee >= CallerCeiling(op))
    => (/\ op.status = "error"
        /\ op.signed = <<>>
        /\ Count(op, SubmitPath) = 0)

\* C2: the `user` field of every message transfer signs and submits is the
\* owner's own chain address, never the relay's gasFree (shadow) address.
C2_UserIsOwner ==
  \A i \in OpIds :
    \A m \in Range(ops[i].signed) \cup Submitted(ops[i]) :
      /\ m.user = OwnerAddress
      /\ m.user # GasFreeAddress

\* C3: quoteTransfer returns transferFee + activateFee of the token when the
\* relay account is inactive, and transferFee alone when it is active.
C3_QuoteFee ==
  \A i \in OpIds :
    LET op == ops[i]
        k == FindToken(relay.tokens, op.token)
    IN (op.kind = "quoteTransfer" /\ op.status = "ok")
       => /\ k # 0
          /\ op.result.fee =
               relay.tokens[k].transferFee
               + (IF relay.active THEN 0 ELSE relay.tokens[k].activateFee)

\* C4: over non-overlapping transfer calls on the instance, every submitted
\* message carries the same nonce, so the relay, which consumes the nonce on
\* each accepted submission, accepts at most the first.
C4_StaleNonce ==
  ~overlapped =>
    /\ \A i, j \in OpIds :
         \A m1 \in Submitted(ops[i]), m2 \in Submitted(ops[j]) : m1.nonce = m2.nonce
    /\ relay.accepted <= 1

\* C5: an operation started after the relay account was resolved and cached
\* sends no GET /api/v1/address/{owner} request.
C5_NoSecondResolution ==
  \A i \in OpIds : ops[i].cachedAtStart => Count(ops[i], AddressPath) = 0

\* C6: when the relay answers the account resolution with a failure, the
\* operation fails with an error containing the reason and the message, the
\* cached relay account stays unset, and the next resolution asks the relay again.
C6_ResolutionFailure ==
  /\ \A i \in OpIds :
       LET op == ops[i] IN
       (FailedReply(op) /\ LastPath(op) = AddressPath)
       => /\ op.status = "error"
          /\ op.reply.reason \in Range(op.error)
          /\ op.reply.message \in Range(op.error)
  /\ (\A i \in OpIds :
        Count(ops[i], AddressPath) > 0
        => (ops[i].pc = AddressPath \/ (FailedReply(ops[i]) /\ LastPath(ops[i]) = AddressPath)))
     => gasFreeAccount = NoAccount
  /\ \A i \in OpIds :
       (ops[i].kind = "getAddress" /\ ~ops[i].cachedAtStart)
       => Count(ops[i], AddressPath) = 1

\* the job-status poll of `op` was answered successfully and the answer consumed
JobAnswered(op) ==
  /\ op.kind = "getTransactionReceipt"
  /\ LastPath(op) = JobPath
  /\ op.pc \in {"chain", "done"}
  /\ op.reply.ok

\* C7: getTransactionReceipt returns null without calling the chain client's
\* receipt lookup when the relay's answer for the job carries no txnHash; when
\* it carries one, the chain client's receipt lookup is called exactly once,
\* with that txnHash, and its result is returned unchanged.
C7_ReceiptResolution ==
  \A i \in OpIds :
    LET op == ops[i]
        hash == op.reply.data.txnHash
    IN JobAnswered(op) =>
         IF hash = Null
         THEN /\ op.pc = "done"
              /\ op.status = "ok"
              /\ op.result = [NoResult EXCEPT !.receipt = Null]
              /\ op.chain = <<>>
         ELSE /\ op.chain = <<hash>>
              /\ op.pc = "done" =>
                   /\ op.status = "ok"
                   /\ op.chainReturned \in {Null, ReceiptOf(hash)}
                   /\ op.result = [NoResult EXCEPT !.receipt = op.chainReturned]

\* a receipt poll found the txnHash, asked the chain once and returned its receipt
C7_Witness ==
  \E i \in OpIds :
    /\ JobAnswered(ops[i])
    /\ ops[i].pc = "done"
    /\ ops[i].chain = <<TxnHashOf(ops[i].jobId)>>
    /\ ops[i].result.receipt = ReceiptOf(TxnHashOf(ops[i].jobId))

\* C8: a non-success HTTP status on any relay request makes the calling
\* operation fail with "Gas free provider error ({reason}): {message}."; in
\* particular transfer returns no {hash, fee} after a failed submit.
C8_ProviderError ==
  \A i \in OpIds :
    LET op == ops[i] IN
    FailedReply(op)
    => /\ op.status = "error"
       /\ op.error = ProviderError(op.reply.reason, op.reply.message)

\* C9: within one invocation no relay request is sent twice, a failed request
\* ends the operation with an error, and transfer posts at most one submit.
C9_NoRetry ==
  \A i \in OpIds :
    LET op == ops[i] IN
    /\ \A k1, k2 \in 1 .. Len(op.sent) : k1 # k2 => op.sent[k1] # op.sent[k2]
    /\ Count(op, SubmitPath) <= 1
    /\ FailedReply(op) => op.status = "error"

\* C10: in every message transfer submits while a caller fee ceiling is in
\* force, maxFee is strictly below the ceiling and equals the computed quote.
C10_MaxFeeBelowCeiling ==
  \A i \in OpIds :
    LET op == ops[i] IN
    (op.kind = "transfer" /\ CallerCeiling(op) # Undefined)
    => \A m \in Submitted(op) :
         /\ m.maxFee < CallerCeiling(op)
         /\ m.maxFee = op.fee

\* C11: with transferMaxFee set in the account's configuration object and no
\* per-call ceiling passed, a transfer whose computed fee reaches or exceeds
\* the configured value sends no POST /api/v1/gasfree/submit.
C11_ConfiguredCeiling ==
  \A i \in OpIds :
    LET op == ops[i] IN
    (/\ op.kind = "transfer"
     /\ transferMaxFee # Undefined
     /\ op.callMaxFee = Undefined
     /\ op.fee # Absent
     /\ op.fee >= transferMaxFee)
    => Count(op, SubmitPath) = 0

\* C13: the result of a successful quoteTransfer has no `hash` field, and the
\* result of a successful transfer has a `hash` field holding the relay job id.
C13_HashField ==
  \A i \in OpIds :
    LET op == ops[i] IN
    /\ (op.kind = "quoteTransfer" /\ op.status = "ok") => op.result.hash = Absent
    /\ (op.kind = "transfer" /\ op.status = "ok")
       => /\ op.result.hash # Absent
          /\ op.result.hash = op.reply.data.id
          /\ op.result.hash \in 1 .. relay.accepted

\* the relay lists `token` neither in the account's assets nor in its fee schedule
Unlisted(token) ==
  /\ FindToken(relay.assets, token) = 0
  /\ FindToken(relay.tokens, token) = 0

TokenNotSupported ==
  {<<"Token not supported">>, <<"Token not supported for this account">>}

\* C14: quoteTransfer and transfer for a token the relay does not list for the
\* account fail with a "token not supported" error once the relay has answered
\* without failure, and the transfer has then signed and submitted nothing.
C14_TokenNotSupported ==
  \A i \in OpIds :
    LET op == ops[i] IN
    (/\ op.kind \in {"quoteTransfer", "transfer"}
     /\ Unlisted(op.token)
     /\ op.pc = "done"
     /\ ~FailedReply(op))
    => /\ op.status = "error"
       /\ op.error \in TokenNotSupported
       /\ op.signed = <<>>
       /\ Count(op, SubmitPath) = 0

\* C12: every message transfer signs has version 1 and a deadline equal to the
\* time at which it is signed plus 300 seconds (the clock is not read on the
\* far side of a network suspension point).
C12_DeadlineFromSigningTime ==
  \A i \in OpIds :
    LET op == ops[i] IN
    \A k \in 1 .. Len(op.signed) :
      /\ op.signed[k].version = 1
      /\ op.signed[k].deadline = op.signedAt[k] + 300

\* the step starts an operation of the given kind
Starts(kind) ==
  /\ Len(ops') = Len(ops) + 1
  /\ ops'[Len(ops')].kind = kind

\* C15: sendTransaction fails at once with an error naming the method, in
\* every account state, sends no request to the relay or the chain and leaves
\* the account's state unchanged.
C15_SendTransactionFails ==
  [][Starts("sendTransaction")
     => LET op == ops'[Len(ops')] IN
        /\ op.pc = "done"
        /\ op.status = "error"
        /\ "sendTransaction(tx)" \in Range(op.error)
        /\ op.sent = <<>>
        /\ op.chain = <<>>
        /\ op.signed = <<>>
        /\ UNCHANGED <<gasFreeAccount, ownerAccount, transferMaxFee, relay, txnHash,
                       confirmed>>]_vars

\* sendTransaction was refused after the relay account was resolved and the
\* account disposed
C15_Witness ==
  \E i \in OpIds :
    /\ ops[i].kind = "sendTransaction"
    /\ ops[i].status = "error"
    /\ gasFreeAccount # NoAccount
    /\ ownerAccount.privateKey = Zeroed

\* C16: quoteSendTransaction completes successfully with a fee that is
\* defined and greater than 0.
C16_QuoteSendTransaction ==
  \A i \in OpIds :
    LET op == ops[i] IN
    (op.kind = "quoteSendTransaction" /\ op.pc = "done")
    => /\ op.status = "ok"
       /\ op.result.fee # Absent
       /\ op.result.fee > 0

\* the Authorization header the relay expects on request r
ExpectedAuthorization(r) ==
  <<"ApiKey ", ApiKey, ":",
    HmacSha256Base64(ApiSecret, <<r.method, r.path, r.owner, r.job, r.headers.Timestamp>>)>>

\* C17: every request sent to the relay carries a Timestamp header and the
\* Authorization header "ApiKey {apiKey}:{sig}", sig being the base64
\* HMAC-SHA256 under the API secret of that request's method, path and the
\* Timestamp header's value; the request in flight is the one last sent.
C17_AuthenticatedRequests ==
  \A i \in OpIds :
    LET op == ops[i] IN
    /\ \A k \in 1 .. Len(op.sent) :
         /\ op.sent[k].headers.Timestamp \in 0 .. now
         /\ op.sent[k].headers.Authorization = ExpectedAuthorization(op.sent[k])
    /\ op.req # NoRequest => (op.sent # <<>> /\ op.req = op.sent[Len(op.sent)])

\* one operation sent two requests at different times
C17_Witness ==
  \E i \in OpIds :
    /\ Len(ops[i].sent) >= 2
    /\ ops[i].sent[1].headers.Timestamp # ops[i].sent[2].headers.Timestamp
    /\ ops[i].sent[2].method = "POST"

\* C18: dispose() never raises, whenever and however often it is called; it
\* leaves the cached relay account, the path and the index unchanged, and a
\* call on a disposed account changes nothing in the account.
C18_DisposeFrame ==
  [][disposal'.calls = disposal.calls + 1
     => /\ ~disposal'.raised
        /\ gasFreeAccount' = gasFreeAccount
        /\ ownerAccount'.path = ownerAccount.path
        /\ ownerAccount'.index = ownerAccount.index
        /\ ops' = ops
        /\ disposal.calls > 0 => ownerAccount' = ownerAccount]_vars

\* dispose() was called twice on an account with a cached relay account
C18_Witness ==
  /\ disposal.calls = 2
  /\ ~disposal.raised
  /\ gasFreeAccount # NoAccount
  /\ ownerAccount.privateKey = Zeroed

\* the calls that returned an account
Returned == {k \in 1 .. Len(calls) : calls[k].kind \in {"getAccount", "getAccountByPath"}
                                      /\ calls[k].status = "ok"}

\* C19: over getAccount and getAccountByPath calls on one wallet manager, calls
\* with the same derivation path return the same account object and calls with
\* different paths different ones, getAccount(i) returns the object of
\* getAccountByPath("0'/0/i"), and a relay account cached on one object is on
\* no other.
C19_OneAccountPerPath ==
  [][~manager'.disposed
     => /\ \A k1, k2 \in Returned' :
             (calls'[k1].path = calls'[k2].path) <=> (calls'[k1].instance = calls'[k2].instance)
        /\ \A k \in Returned' :
             /\ calls'[k].instance \in 1 .. Len(instances')
             /\ instances'[calls'[k].instance].path = calls'[k].path
             /\ calls'[k].kind = "getAccount" => calls'[k].path = PathOf(calls'[k].index)
        /\ \A id \in 1 .. Len(instances) :
             instances'[id].gasFreeAccount # instances[id].gasFreeAccount
             => \A other \in (1 .. Len(instances)) \ {id} :
                  instances'[other].gasFreeAccount = instances[other].gasFreeAccount]_vars

\* getAccount(1) and getAccountByPath("0'/0/1") returned one object, another
\* path another object, and only one of the two has resolved its relay account
C19_Witness ==
  \E k1, k2, k3 \in Returned :
    /\ calls[k1].kind = "getAccount"
    /\ calls[k2].kind = "getAccountByPath"
    /\ calls[k1].instance = calls[k2].instance
    /\ calls[k3].instance # calls[k1].instance
    /\ instances[calls[k1].instance].gasFreeAccount # NoAccount
    /\ instances[calls[k3].instance].gasFreeAccount = NoAccount

\* C20: after dispose() on the wallet manager, getFeeRates() and getAccount(i)
\* both fail, and the path of every account obtained before stays as it was.
C20_DisposedManagerFails ==
  /\ \A k \in 1 .. Len(calls) :
       (/\ calls[k].afterDispose
        /\ calls[k].kind \in {"getFeeRates", "getAccount"}
        /\ calls[k].pc = "done")
       => calls[k].status = "error"
  /\ \A k \in Returned : instances[calls[k].instance].path = calls[k].path

\* C21: getFeeRates fails when the manager has no chain provider; with one,
\* for every chain transaction fee above 0 it returns normal = fee * 110 / 100
\* and fast = fee * 200 / 100 in integer division, with fast > normal > 0.
C21_FeeRates ==
  \A k \in 1 .. Len(calls) :
    LET call == calls[k] IN
    (call.kind = "getFeeRates" /\ call.pc = "done")
    => /\ ~manager.tronWeb => (call.status = "error" /\ call.normal = NoFeeRate)
       /\ (manager.tronWeb /\ call.status = "ok" /\ call.chainFee > 0)
          => /\ call.normal = (call.chainFee * 110) \div 100
             /\ call.fast = (call.chainFee * 200) \div 100
             /\ call.fast > call.normal
             /\ call.normal > 0
       /\ (manager.tronWeb /\ call.status = "error") => call.error = <<"rpc error">>

\* fee rates were returned for chain fee 1: normal 1, fast 2
C21_Witness ==
  \E k \in 1 .. Len(calls) :
    /\ calls[k].kind = "getFeeRates"
    /\ calls[k].status = "ok"
    /\ calls[k].chainFee = 1
    /\ calls[k].normal = 1
    /\ calls[k].fast = 2

\* the GET /api/v1/address/{owner} request of `op` was answered successfully:
\* the operation holds the answer, or went on past it
Resolved(op) ==
  \E k \in 1 .. Len(op.sent) :
    /\ op.sent[k].path = AddressPath
    /\ \/ k < Len(op.sent)
       \/ op.pc = "done" /\ op.reply.ok
       \/ op.pc = AddressPath /\ op.replied /\ op.reply.ok

\* C25: under any interleaving of operations on one instance, the cached relay
\* account is never replaced once populated, and at most one
\* GET /api/v1/address/{owner} request is answered successfully.
C25_SingleResolution ==
  [][/\ gasFreeAccount # NoAccount => gasFreeAccount' = gasFreeAccount
     /\ Cardinality({i \in 1 .. Len(ops') : Resolved(ops'[i])}) <= 1]_vars

\* C27: the fee transfer computes for a token equals the fee quoteTransfer
\* returns for the same token on the same instance.
C27_TransferFeeIsQuotedFee ==
  \A i, j \in OpIds :
    (/\ ops[i].kind = "transfer"
     /\ ops[i].fee # Absent
     /\ ops[j].kind = "quoteTransfer"
     /\ ops[j].status = "ok"
     /\ ops[j].token = ops[i].token)
    => ops[i].fee = ops[j].result.fee

\* a poll for job `j` came back with the job's receipt
Received(j) ==
  \E i \in OpIds :
    /\ ops[i].kind = "getTransactionReceipt"
    /\ ops[i].jobId = j
    /\ ops[i].status = "ok"
    /\ ops[i].result.receipt = ReceiptOf(TxnHashOf(j))

\* C26: for a job the relay created for a transfer, a poll the relay answers
\* before it attached a txnHash returns null and no error; and once the job
\* exists, with the relay attaching the txnHash and the chain including it, a
\* caller that keeps polling eventually receives the receipt.
C26_PollUntilReceipt ==
  /\ [](\A i \in OpIds :
          (JobAnswered(ops[i]) /\ ops[i].reply.data.txnHash = Null)
          => /\ ops[i].pc = "done"
             /\ ops[i].status = "ok"
             /\ ops[i].result.receipt = Null)
  /\ \A j \in JobIds : (relay.accepted >= j) ~> Received(j)

\* a poll returned null before the txnHash was there, the next one the receipt
C26_Witness ==
  /\ Len(ops) = 2
  /\ JobAnswered(ops[1])
  /\ ops[1].reply.data.txnHash = Null
  /\ ops[1].result.receipt = Null
  /\ ops[2].jobId = ops[1].jobId
  /\ Received(ops[2].jobId)
  /\ ops[2].result.receipt = ReceiptOf(TxnHashOf(ops[2].jobId))

\* the struct types reachable from the types of `seen` through fields and
\* array-of-struct fields
RECURSIVE Closure(_, _)
Closure(types, seen) ==
  LET more == seen \cup {n \in DOMAIN types :
                           \E s \in seen : \E k \in 1 .. Len(types[s]) :
                             types[s][k].type.name = n}
  IN IF more = seen THEN seen ELSE Closure(types, more)

Reachable == Closure(encoder.types, {encoder.primaryType})

\* C22: the canonical type string is the primary type's signature followed by
\* the signature of every other reachable struct type, each exactly once and in
\* ascending order of name, whatever the order of discovery, and the same on
\* every call.
C22_CanonicalTypeString ==
  \A c \in 1 .. Len(encoder.results) :
    LET result == encoder.results[c] IN
    /\ result[1] = TypeSignature(encoder.types, encoder.primaryType)
    /\ {result[k].type : k \in 1 .. Len(result)} = Reachable
    /\ Len(result) = Cardinality(Reachable)
    /\ \A k \in 1 .. Len(result) : result[k] = TypeSignature(encoder.types, result[k].type)
    /\ \A k \in 2 .. Len(result) - 1 :
         Before(CodeUnits(result[k].type), CodeUnits(result[k + 1].type))
    /\ result = encoder.results[1]

\* Mail was encoded twice; Person was discovered before Group and is listed after it
C22_Witness ==
  /\ Len(encoder.results) = 2
  /\ encoder.primaryType = "Mail"
  /\ encoder.deps = <<"Mail", "Person", "Group">>
  /\ encoder.results[2][2].type = "Group"
  /\ encoder.results[2][3].type = "Person"

\* C30: the construction of the canonical type string terminates on every type
\* map, with cyclic and self-referencing types too: findDependencies is entered
\* at most once per field plus once for the primary type, never nests deeper
\* than there are types, every unfinished call can take its next step, and the
\* result lists each reachable type exactly once, the primary type first.
C30_Terminates ==
  /\ encoder.visits <= 1 + Len(encoder.types["Mail"]) + Len(encoder.types["Group"])
                         + Len(encoder.types["Person"])
  /\ Len(encoder.stack) <= Cardinality(StructNames)
  /\ encoder.pc = "find" => ENABLED (NextField \/ CanonicalType)
  /\ \A c \in 1 .. Len(encoder.results) :
       LET result == encoder.results[c] IN
       /\ result[1].type = encoder.primaryType
       /\ \A n \in Reachable : Cardinality({k \in 1 .. Len(result) : result[k].type = n}) = 1

\* a type map with a cycle through an array and a self-reference was encoded
C30_Witness ==
  /\ encoder.pc = "done"
  /\ encoder.primaryType = "Group"
  /\ encoder.types["Group"] = <<[name |-> "f1", type |-> TypeRef("Mail", TRUE)]>>
  /\ encoder.types["Mail"] = <<[name |-> "f1", type |-> TypeRef("Group", TRUE)],
                               [name |-> "f2", type |-> TypeRef("Mail", TRUE)]>>
  /\ Len(encoder.results[1]) = 2

\* a value that is undefined or null
NoValue(value) == value = MissingValue \/ value = NullValue

\* the fields declared for struct type `name`, or for a struct nested in it,
\* whose value in `data` is undefined or null
RECURSIVE MissingIn(_, _, _)
MissingIn(types, name, data) ==
  UNION {LET field == types[name][k]
             value == Get(data, field.name)
         IN IF NoValue(value) THEN {field.name}
            ELSE IF field.type.name \notin DOMAIN types THEN {}
            ELSE IF field.type.array
            THEN UNION {MissingIn(types, field.type.name, value.array[i]) :
                          i \in 1 .. Len(value.array)}
            ELSE MissingIn(types, field.type.name, value) :
         k \in 1 .. Len(types[name])}

\* the declared fields without a value in a call of signTypedData
MissingFields(call) ==
  LET allTypes == AllTypes(typedData.domain, typedData.types) IN
  MissingIn(allTypes, "EIP712Domain", typedData.domain)
    \cup MissingIn(allTypes, typedData.primaryType, call.value)

\* C23: when a field declared for the primary type, for the domain type or for
\* a nested struct type has an undefined or null value, signTypedData fails with
\* an error naming such a field and produces no digest and no signature.
C23_MissingFieldFails ==
  \A c \in 1 .. Len(typedData.calls) :
    LET call == typedData.calls[c] IN
    MissingFields(call) # {}
    => /\ Len(call.error) = 2
       /\ call.error[1] = "Missing value for field "
       /\ call.error[2] \in MissingFields(call)
       /\ call.digest = NoWord
       /\ call.signature = NoWord

\* a Mail whose sender has no wallet, and one with a null name in its
\* recipients, were refused with the field's name
C23_Witness ==
  /\ Len(typedData.calls) = 2
  /\ typedData.primaryType = "Mail"
  /\ Get(typedData.domain, "name") = Str("GasFreeController")
  /\ typedData.calls[1].value.object.from = Persons.NoWallet
  /\ typedData.calls[1].error = <<"Missing value for field ", "wallet">>
  /\ typedData.calls[2].value.object.from = Persons.Alice
  /\ typedData.calls[2].value.object.to = Arr(<<Persons.NullName>>)
  /\ typedData.calls[2].error = <<"Missing value for field ", "name">>

\* two signed PermitTransfer messages that differ in nonce and in nothing else
NonceOnly(a, b) ==
  /\ typedData.primaryType = "PermitTransfer"
  /\ a.error = NoError
  /\ b.error = NoError
  /\ a.value.object.nonce # b.value.object.nonce
  /\ \A k \in 1 .. Len(PermitTransferFields) :
       LET name == PermitTransferFields[k].name IN
       name # "nonce" => a.value.object[name] = b.value.object[name]

\* C24: two PermitTransfer messages signed under the same domain and equal in
\* every field except nonce have different digests and different signatures.
C24_NonceSeparatesDigests ==
  \A c, d \in 1 .. Len(typedData.calls) :
    LET a == typedData.calls[c]
        b == typedData.calls[d]
    IN NonceOnly(a, b) => (a.digest # b.digest /\ a.signature # b.signature)

\* nonce 0 and nonce 1 were signed for the same transfer
C24_Witness ==
  /\ Len(typedData.calls) = 2
  /\ NonceOnly(typedData.calls[1], typedData.calls[2])
  /\ typedData.calls[1].value.object.nonce = Num(0)
  /\ typedData.calls[2].value.object.nonce = Num(1)
  /\ typedData.calls[1].digest # NoWord
  /\ typedData.calls[2].signature # NoWord

\* the struct hashes of the elements of an array, concatenated
RECURSIVE StructHashes(_, _, _)
StructHashes(types, type, items) ==
  IF items = <<>> THEN <<>>
  ELSE HashStruct(types, type, Head(items)).bytes \o StructHashes(types, type, Tail(items))

\* C28: for a field whose type is a dynamic array of a struct type, the data
\* encoder emits one 32-byte slot: the hash of the concatenation of the struct
\* hashes hash(typeHash || encodedData) of the array's elements, in order.
C28_ArrayOfStructs ==
  \A c \in 1 .. Len(typedData.calls) :
    LET call == typedData.calls[c]
        allTypes == AllTypes(typedData.domain, typedData.types)
        \* the struct hash covers the type hash and then one slot per field
        slots == Tail(call.structHash.keccak256)
    IN (typedData.primaryType = "Mail" /\ call.error = NoError)
       => /\ Len(slots) = Len(MailFields)
          /\ slots[2] = Keccak256(StructHashes(allTypes, "Person", call.value.object.to.array))

\* the value of a hexadecimal character
HexValue(char) == CHOOSE d \in 0 .. 15 : HexChars[d + 1] = char

\* the 16 limbs that 64 hexadecimal characters spell
Parse64(chars) ==
  [k \in 1 .. 16 |-> HexValue(chars[4 * k - 3]) * 4096 + HexValue(chars[4 * k - 2]) * 256
                     + HexValue(chars[4 * k - 1]) * 16 + HexValue(chars[4 * k])]

\* C29: for every signature value the signature string is "0x" and exactly 130
\* hexadecimal characters: r and s zero-padded to 64 characters each, then
\* v = recovery + 27 in 2 characters; the posted sig is the string without "0x".
C29_SignatureString ==
  /\ signing.pc \in {"formatted", "posted"}
     => /\ Len(signing.string) = 132
        /\ SubSeq(signing.string, 1, 2) = <<"0", "x">>
        /\ \A k \in 3 .. 132 : \E d \in 1 .. 16 : signing.string[k] = HexChars[d]
        /\ Parse64(SubSeq(signing.string, 3, 66)) = signing.r
        /\ Parse64(SubSeq(signing.string, 67, 130)) = signing.s
        /\ SubSeq(signing.string, 131, 132)
             = IF signing.recovery = 0 THEN <<"1", "b">> ELSE <<"1", "c">>
  /\ signing.pc = "posted"
     => /\ Len(signing.sig) = 130
        /\ <<"0", "x">> \o signing.sig = signing.string

\* r = 0 and s = 2^256 - 1 were formatted and posted
C29_Witness ==
  /\ signing.pc = "posted"
  /\ signing.r = Scalar(0, 0)
  /\ signing.s = Scalar(65535, 65535)
  /\ signing.recovery = 1
  /\ signing.sig[1] = "0"
  /\ signing.sig[65] = "f"
  /\ Len(signing.sig) = 130

====
